---- MODULE Spec2Model ----
(***************************************************************************)
(* A model of the three GPU pricing pipelines of scripts/:                 *)
(*   get_aws_gpu_pricing.py, get_azure_gpu_pricing.py,                     *)
(*   get_gcp_gpu_pricing.py.                                               *)
(* One behaviour is one run of one script's main(): the vendor and the     *)
(* vendor's catalog are chosen in Init, and every action is one function   *)
(* of the script (one HTTP request for the Azure pagination loop).         *)
(*                                                                         *)
(* Python values are modelled as follows.                                  *)
(*   str    a TLA+ string, read with Len, SubSeq and \o                    *)
(*   dict   a function whose DOMAIN is the set of keys that are present    *)
(*   list   a sequence                                                     *)
(*   None   the empty tuple <<>>                                           *)
(*   float  an amount of money is a pair <<units, nanos>> worth            *)
(*          units + nanos / NanosPerUnit, 0 <= nanos < NanosPerUnit;       *)
(*          a quotient is kept exact as <<units, nanos, divisor>>          *)
(***************************************************************************)
EXTENDS Integers, Sequences, FiniteSets, TLC

(***************************************************************************)
(* Python strings                                                          *)
(***************************************************************************)

\* The characters of the catalogs in ASCII order; a character's code is its
\* position in this string.
Alphabet == " $&-.0123456789=?ABCDEFGHIJKLMNOPQRSTUVWXYZ_abcdefghijklmnopqrstuvwxyz"

UpperLetters == "ABCDEFGHIJKLMNOPQRSTUVWXYZ"

LowerLetters == "abcdefghijklmnopqrstuvwxyz"

DigitChars == "0123456789"

None == <<>>

CharAt(s, i) == SubSeq(s, i, i)

\* The position of character c in string s, 0 when it is not in s.
IndexIn(c, s) ==
  IF \E i \in 1..Len(s) : CharAt(s, i) = c
    THEN CHOOSE i \in 1..Len(s) : CharAt(s, i) = c
    ELSE 0

Ord(c) == IndexIn(c, Alphabet)

\* c.isdigit()
IsDigit(c) == c \in {"0", "1", "2", "3", "4", "5", "6", "7", "8", "9"}

\* The lower-case letter of each upper-case letter, and the reverse.
ToLower == [c \in {CharAt(UpperLetters, i) : i \in 1..26} |-> CharAt(LowerLetters, IndexIn(c, UpperLetters))]

ToUpper == [c \in {CharAt(LowerLetters, i) : i \in 1..26} |-> CharAt(UpperLetters, IndexIn(c, LowerLetters))]

LowerChar(c) == IF c \in DOMAIN ToLower THEN ToLower[c] ELSE c

UpperChar(c) == IF c \in DOMAIN ToUpper THEN ToUpper[c] ELSE c

RECURSIVE Lower(_)
\* s.lower()
Lower(s) ==
  IF Len(s) = 0 THEN ""
  ELSE LowerChar(CharAt(s, 1)) \o Lower(SubSeq(s, 2, Len(s)))

RECURSIVE Upper(_)
\* s.upper()
Upper(s) ==
  IF Len(s) = 0 THEN ""
  ELSE UpperChar(CharAt(s, 1)) \o Upper(SubSeq(s, 2, Len(s)))

\* s.startswith(p)
StartsWith(s, p) == Len(p) <= Len(s) /\ SubSeq(s, 1, Len(p)) = p

\* The first position at which sub occurs in s, 0 when it does not.
Find(sub, s) ==
  LET hits == {i \in 1..(Len(s) - Len(sub) + 1) : SubSeq(s, i, i + Len(sub) - 1) = sub}
  IN IF hits = {} THEN 0 ELSE CHOOSE i \in hits : \A j \in hits : i <= j

\* sub in s
Contains(sub, s) == Len(sub) = 0 \/ Find(sub, s) > 0

RECURSIVE SplitOn(_, _)
\* s.split(sep), for a non-empty separator
SplitOn(s, sep) ==
  LET at == Find(sep, s)
  IN IF at = 0 THEN <<s>>
     ELSE <<SubSeq(s, 1, at - 1)>> \o SplitOn(SubSeq(s, at + Len(sep), Len(s)), sep)

RECURSIVE DropEmpty(_)
DropEmpty(parts) ==
  IF parts = <<>> THEN <<>>
  ELSE IF Len(Head(parts)) = 0 THEN DropEmpty(Tail(parts))
  ELSE <<Head(parts)>> \o DropEmpty(Tail(parts))

\* s.split(): the words between runs of blanks
SplitWords(s) == DropEmpty(SplitOn(s, " "))

\* parts[i] for a Python index i, which counts from the end when negative;
\* the callers index a non-empty list with i >= -1, always in range.
PyIndex(parts, i) == IF i >= 0 THEN parts[i + 1] ELSE parts[Len(parts) + i + 1]

RECURSIVE DigitsValue(_)
DigitsValue(s) ==
  IF Len(s) = 0 THEN 0
  ELSE 10 * DigitsValue(SubSeq(s, 1, Len(s) - 1)) + (IndexIn(CharAt(s, Len(s)), DigitChars) - 1)

AllDigits(s) == Len(s) > 0 /\ \A i \in 1..Len(s) : IsDigit(CharAt(s, i))

\* int(s) for a word s: an optional sign and decimal digits; anything else
\* raises ValueError (ok is FALSE).
ParseInt(s) ==
  LET signed == Len(s) > 0 /\ CharAt(s, 1) \in {"-", "+"}
      body == IF signed THEN SubSeq(s, 2, Len(s)) ELSE s
  IN IF ~AllDigits(body) THEN [ok |-> FALSE, val |-> 0]
     ELSE [ok |-> TRUE,
           val |-> IF signed /\ CharAt(s, 1) = "-" THEN -DigitsValue(body) ELSE DigitsValue(body)]

RECURSIVE StrLess(_, _)
\* a < b for two strings
StrLess(a, b) ==
  IF Len(b) = 0 THEN FALSE
  ELSE IF Len(a) = 0 THEN TRUE
  ELSE IF CharAt(a, 1) = CharAt(b, 1) THEN StrLess(SubSeq(a, 2, Len(a)), SubSeq(b, 2, Len(b)))
  ELSE Ord(CharAt(a, 1)) < Ord(CharAt(b, 1))

(***************************************************************************)
(* Python dicts, lists and floats                                          *)
(***************************************************************************)

\* d[k] = v
Put(d, k, v) == (k :> v) @@ d

\* d.get(k, default)
Get(d, k, default) == IF k \in DOMAIN d THEN d[k] ELSE default

\* A key that is set to a value other than None.
HasValue(d, k) == k \in DOMAIN d /\ d[k] # None

RECURSIVE Repeat(_, _)
\* [v] * n
Repeat(v, n) == IF n <= 0 THEN <<>> ELSE <<v>> \o Repeat(v, n - 1)

RECURSIVE Concat(_)
\* The concatenation of a list of lists.
Concat(lists) == IF lists = <<>> THEN <<>> ELSE Head(lists) \o Concat(Tail(lists))

NanosPerUnit == 1000000000

Money(units, nanos) == <<units, nanos>>

MZero == Money(0, 0)

\* a + b
MAdd(a, b) ==
  LET n == a[2] + b[2]
  IN IF n >= NanosPerUnit THEN Money(a[1] + b[1] + 1, n - NanosPerUnit)
     ELSE Money(a[1] + b[1], n)

\* -a
MNeg(a) == IF a[2] = 0 THEN Money(-a[1], 0) ELSE Money(-a[1] - 1, NanosPerUnit - a[2])

RECURSIVE MMul(_, _)
\* a * c for an integer c
MMul(a, c) ==
  IF c = 0 THEN MZero
  ELSE IF c < 0 THEN MNeg(MMul(a, -c))
  ELSE MAdd(a, MMul(a, c - 1))

\* a / d for a divisor d of NanosPerUnit, to the nano
MDiv(a, d) ==
  Money(a[1] \div d, (a[1] % d) * (NanosPerUnit \div d) + (a[2] \div d))

\* a < b
MLess(a, b) == a[1] < b[1] \/ (a[1] = b[1] /\ a[2] < b[2])

\* a / d for an integer d # 0, kept exact
Quotient(a, d) == <<a[1], a[2], d>>

(***************************************************************************)
(* get_aws_gpu_pricing.py                                                  *)
(***************************************************************************)

GPU_INSTANCE_FAMILIES ==
  <<"p5en", "p5e", "p5", "p4d", "p4de", "p3", "p3dn", "g3", "g4dn", "g5", "g6", "g6e", "g5g">>

\* GPU_MODEL_MAP in the order its items() are iterated.
GPU_MODEL_MAP ==
  << <<"p5e", "NVIDIA H200">>, <<"p5", "NVIDIA H100">>, <<"p4d", "NVIDIA A100">>,
     <<"p4de", "NVIDIA A100">>, <<"p3", "NVIDIA V100">>, <<"p3dn", "NVIDIA V100">>,
     <<"g3", "NVIDIA M60">>, <<"g4dn", "NVIDIA T4">>, <<"g5", "NVIDIA A10G">>,
     <<"g6", "NVIDIA L4">>, <<"g6e", "NVIDIA L40S">>, <<"g5g", "AWS Graviton2 (ARM)">> >>

GPU_MEMORY_MAP ==
  [m \in {"NVIDIA H200", "NVIDIA H100", "NVIDIA A100", "NVIDIA V100", "NVIDIA M60",
          "NVIDIA T4", "NVIDIA A10G", "NVIDIA L4", "NVIDIA L40S", "AWS Graviton2 (ARM)"} |->
     CASE m = "NVIDIA H200" -> 141
       [] m = "NVIDIA H100" -> 80
       [] m = "NVIDIA A100" -> 80
       [] m = "NVIDIA V100" -> 16
       [] m = "NVIDIA M60" -> 8
       [] m = "NVIDIA T4" -> 16
       [] m = "NVIDIA A10G" -> 24
       [] m = "NVIDIA L4" -> 24
       [] m = "NVIDIA L40S" -> 48
       [] OTHER -> 0]

MiBPerGiB == 1024

\* any(InstanceType.startswith(family) for family in GPU_INSTANCE_FAMILIES)
AwsIsGpuFamily(name) ==
  \E i \in 1..Len(GPU_INSTANCE_FAMILIES) : StartsWith(name, GPU_INSTANCE_FAMILIES[i])

\* The first element of a list of strings that name starts with, by position.
FirstPrefix(name, keys) ==
  LET hits == {i \in 1..Len(keys) : StartsWith(name, keys[i])}
  IN IF hits = {} THEN 0 ELSE CHOOSE i \in hits : \A j \in hits : i <= j

\* "Extract GPU information": what the GpuInfo of the payload gives. An
\* optional string is <<>> (None) or <<s>>.
AwsGpuFromApi(instance_type) ==
  LET unset == [raises |-> "", gpu_count |-> 0, gpu_model |-> None, gpu_memory |-> 0]
  IN IF "GpuInfo" \notin DOMAIN instance_type THEN unset
     ELSE IF "Gpus" \notin DOMAIN instance_type.GpuInfo THEN unset
     ELSE IF Len(instance_type.GpuInfo.Gpus) = 0
       \* gpu_info["Gpus"][0] of an empty list
       THEN [unset EXCEPT !.raises = "IndexError"]
     ELSE unset

\* "If GPU info not available from API, use our mapping"
AwsGpuFromTable(name, api) ==
  IF api.gpu_model = None \/ api.gpu_memory = 0
    THEN LET i == FirstPrefix(name, [k \in 1..Len(GPU_MODEL_MAP) |-> GPU_MODEL_MAP[k][1]])
         IN IF i = 0 THEN api
            ELSE [api EXCEPT !.gpu_model = <<GPU_MODEL_MAP[i][2]>>,
                             !.gpu_memory = Get(GPU_MEMORY_MAP, GPU_MODEL_MAP[i][2], 0)]
    ELSE api

\* A plausible slip: the shortest suffix tested first.
AwsGpuCount_ShortestFirst(name, gpu_count) ==
  IF gpu_count # 0 THEN gpu_count
  ELSE LET parts == SplitOn(name, ".")
           instance_size == parts[Len(parts)]
       IN IF Contains("xlarge", instance_size) THEN 1
          ELSE IF Contains("8xlarge", instance_size) THEN 2
          ELSE IF Contains("16xlarge", instance_size) \/ Contains("12xlarge", instance_size) THEN 4
          ELSE IF Contains("24xlarge", instance_size) THEN 8
          ELSE 0

\* "For GPU counts if not provided": the heuristic on the size suffix
AwsGpuCount(name, gpu_count) ==
  IF gpu_count # 0 THEN gpu_count
  ELSE LET parts == SplitOn(name, ".")
           instance_size == parts[Len(parts)]
       IN IF Contains("24xlarge", instance_size) THEN 8
          ELSE IF Contains("16xlarge", instance_size) \/ Contains("12xlarge", instance_size) THEN 4
          ELSE IF Contains("8xlarge", instance_size) THEN 2
          ELSE IF Contains("xlarge", instance_size) THEN 1
          ELSE 0

\* instance_data
AwsInstanceData(instance_type, gpu_count, gpu_model, gpu_memory) ==
  LET name == instance_type.InstanceType
      f == FirstPrefix(name, GPU_INSTANCE_FAMILIES)
  IN [instance_type |-> name,
      family |-> IF f = 0 THEN "unknown" ELSE GPU_INSTANCE_FAMILIES[f],
      vcpus |-> Get(Get(instance_type, "VCpuInfo", <<>>), "DefaultVCpus", 0),
      memory_gb |-> <<Get(Get(instance_type, "MemoryInfo", <<>>), "SizeInMiB", 0), MiBPerGiB>>,
      gpu_count |-> gpu_count,
      gpu_model |-> gpu_model,
      gpu_memory_gb |-> gpu_memory,
      total_gpu_memory_gb |-> gpu_count * gpu_memory]

\* The body of the loop of get_instance_types for one instance type.
AwsClassify(instance_type) ==
  LET name == instance_type.InstanceType
      api == AwsGpuFromApi(instance_type)
      tab == AwsGpuFromTable(name, api)
  IN IF ~AwsIsGpuFamily(name) THEN [raises |-> "", out |-> <<>>]
     ELSE IF api.raises # "" THEN [raises |-> api.raises, out |-> <<>>]
     ELSE [raises |-> "",
           out |-> <<AwsInstanceData(instance_type, AwsGpuCount(name, tab.gpu_count),
                                     tab.gpu_model, tab.gpu_memory)>>]

RECURSIVE get_instance_types(_)
\* get_instance_types over the instance types of all pages: the list it
\* returns, or the exception it raises.
get_instance_types(types) ==
  IF types = <<>> THEN [raises |-> "", out |-> <<>>]
  ELSE LET one == AwsClassify(Head(types))
           rest == get_instance_types(Tail(types))
       IN IF one.raises # "" THEN one
          ELSE IF rest.raises # "" THEN rest
          ELSE [raises |-> "", out |-> one.out \o rest.out]

\* cny_to_usd_rate = 0.14, as a number of hundredths
CnyToUsdHundredths == 14

Hundred == 100

\* The price get_instance_pricing stores for one response of the pricing
\* API: price_per_hour_usd, or None. A response is
\*   [raises |-> BOOLEAN, PriceList |-> list of price_data];
\* price_data is the list of its OnDemand terms, a term the list of its
\* priceDimensions, a price dimension its pricePerUnit dict; next(iter(d))
\* of a dict is the first element of the list.
AwsPriceOf(response) ==
  IF response.raises THEN None
  ELSE IF response.PriceList = <<>> THEN None
  ELSE LET terms == response.PriceList[1]
       IN IF terms = <<>> THEN None
          \* next(iter(price_dimensions)) of an empty dict raises
          \* StopIteration, which the except clause turns into None
          ELSE IF terms[1] = <<>> THEN None
          ELSE LET price_per_unit == terms[1][1]
               IN IF "USD" \in DOMAIN price_per_unit THEN price_per_unit["USD"]
                  ELSE IF "CNY" \in DOMAIN price_per_unit
                    THEN MDiv(MMul(price_per_unit["CNY"], CnyToUsdHundredths), Hundred)
                  ELSE None

\* get_instance_pricing: pricing maps an instance type name to the response
\* the pricing API gives for it.
get_instance_pricing(instance_types, pricing) ==
  [i \in 1..Len(instance_types) |->
     Put(instance_types[i], "price_per_hour_usd",
         AwsPriceOf(pricing[instance_types[i].instance_type]))]

\* The body of the loop of calculate_derived_metrics.
AwsDerive(instance) ==
  IF Get(instance, "price_per_hour_usd", None) = None THEN instance
  ELSE LET per_gpu == IF instance.gpu_count > 0
                        THEN Quotient(instance.price_per_hour_usd, instance.gpu_count)
                        ELSE None
           per_gb == IF Get(instance, "total_gpu_memory_gb", 0) > 0
                       THEN Quotient(instance.price_per_hour_usd, instance.total_gpu_memory_gb)
                       ELSE None
       IN Put(Put(instance, "price_per_gpu_hour", per_gpu), "price_per_gpu_gb_hour", per_gb)

\* A plausible slip: "del instance" taken to remove the record from the list.
calculate_derived_metrics_Dropping(list) ==
  LET Priced(instance) == Get(instance, "price_per_hour_usd", None) # None
      kept == SelectSeq(list, Priced)
  IN [i \in 1..Len(kept) |-> AwsDerive(kept[i])]

\* calculate_derived_metrics: "del instance" unbinds the loop variable and
\* leaves the list as it is.
calculate_derived_metrics(list) ==
  [i \in 1..Len(list) |-> AwsDerive(list[i])]

(***************************************************************************)
(* get_azure_gpu_pricing.py                                                *)
(***************************************************************************)

AZURE_GPU_FAMILIES == <<"NC", "ND", "NG", "NV">>

\* GPU_MODELS of the Azure script
AZURE_GPU_MODELS ==
  [m \in {"NVIDIA H100", "NVIDIA A100", "NVIDIA T4", "NVIDIA V100", "NVIDIA P100",
          "NVIDIA K80", "NVIDIA A10", "NVIDIA M60", "AMD MI300X", "AMD V620"} |->
     CASE m = "NVIDIA H100" -> 80
       [] m = "NVIDIA A100" -> 80
       [] m = "NVIDIA T4" -> 16
       [] m = "NVIDIA V100" -> 32
       [] m = "NVIDIA P100" -> 16
       [] m = "NVIDIA K80" -> 12
       [] m = "NVIDIA A10" -> 24
       [] m = "NVIDIA M60" -> 8
       [] m = "AMD MI300X" -> 192
       [] OTHER -> 8]

\* SERIES_GPU_MAP in the order its items() are iterated; count_suffix is
\* the list of its (suffix, count) items in order.
SERIES_GPU_MAP ==
  << [series |-> "NCads_H100_v5", model |-> "NVIDIA H100",
      count_suffix |-> << <<"24", 8>>, <<"8", 4>>, <<"4", 2>>, <<"2", 1>> >>],
     [series |-> "NCCads_H100_v5", model |-> "NVIDIA H100",
      count_suffix |-> << <<"24", 8>>, <<"8", 4>>, <<"4", 2>>, <<"2", 1>> >>],
     [series |-> "ND-H100-v5", model |-> "NVIDIA H100",
      count_suffix |-> << <<"80", 8>>, <<"40", 4>> >>],
     [series |-> "NC_A100_v4", model |-> "NVIDIA A100",
      count_suffix |-> << <<"80", 8>>, <<"8", 1>>, <<"1", 1>> >>],
     [series |-> "NDm_A100_v4", model |-> "NVIDIA A100",
      count_suffix |-> << <<"8", 8>>, <<"4", 4>> >>],
     [series |-> "ND_A100_v4", model |-> "NVIDIA A100",
      count_suffix |-> << <<"8", 8>>, <<"4", 4>> >>],
     [series |-> "NCasT4_v3", model |-> "NVIDIA T4",
      count_suffix |-> << <<"16", 4>>, <<"8", 2>>, <<"4", 1>>, <<"2", 1>>, <<"1", 1>> >>],
     [series |-> "NCv3", model |-> "NVIDIA V100",
      count_suffix |-> << <<"32", 4>>, <<"16", 2>>, <<"8", 1>> >>],
     [series |-> "NCv2", model |-> "NVIDIA P100",
      count_suffix |-> << <<"24", 4>>, <<"12", 2>>, <<"6", 1>> >>],
     [series |-> "NC", model |-> "NVIDIA K80",
      count_suffix |-> << <<"12", 4>>, <<"6", 2>>, <<"1", 1>> >>],
     [series |-> "NVadsA10_v5", model |-> "NVIDIA A10",
      count_suffix |-> << <<"24", 4>>, <<"8", 1>>, <<"4", 1>> >>],
     [series |-> "NVv3", model |-> "NVIDIA M60",
      count_suffix |-> << <<"24", 4>>, <<"12", 2>>, <<"8", 1>>, <<"4", 1>> >>],
     [series |-> "NV", model |-> "NVIDIA M60",
      count_suffix |-> << <<"24", 4>>, <<"12", 2>>, <<"6", 1>> >>],
     [series |-> "ND_MI300X_v5", model |-> "AMD MI300X", count_suffix |-> << <<"8", 8>> >>],
     [series |-> "NGads V620", model |-> "AMD V620",
      count_suffix |-> << <<"8", 8>>, <<"4", 4>>, <<"2", 2>>, <<"1", 1>> >>] >>

\* The first of the positions of a list at which a test holds, 0 when there
\* is none.
FirstWhere(hits) ==
  IF hits = {} THEN 0 ELSE CHOOSE i \in hits : \A j \in hits : i <= j

\* any(family in text for family in ['NC', 'ND', 'NG', 'NV'])
HasAzureFamily(text) ==
  \E i \in 1..Len(AZURE_GPU_FAMILIES) : Contains(AZURE_GPU_FAMILIES[i], text)

\* "Find which GPU series this VM belongs to": the position in
\* SERIES_GPU_MAP of the first series named in the product or SKU name.
AzureSeriesOf(sku_name, product_name) ==
  LET InName(i) == \/ Contains(SERIES_GPU_MAP[i].series, product_name)
                   \/ Contains(SERIES_GPU_MAP[i].series, sku_name)
  IN FirstWhere({idx \in 1..Len(SERIES_GPU_MAP) : InName(idx)})

\* "Determine GPU count based on the size suffix"
AzureGpuCount(gpu_info, sku_name) ==
  LET parts == SplitOn(sku_name, "_")
      last == parts[Len(parts)]
      InLast(i) == Contains(gpu_info.count_suffix[i][1], last)
      at == FirstWhere({idx \in 1..Len(gpu_info.count_suffix) : InLast(idx)})
  IN IF at # 0 /\ Len(gpu_info.count_suffix[at][1]) > 0
       THEN gpu_info.count_suffix[at][2]
       ELSE 1

RECURSIVE DigitsOf(_)
\* ''.join(c for c in part if c.isdigit())
DigitsOf(part) ==
  IF Len(part) = 0 THEN ""
  ELSE (IF IsDigit(CharAt(part, 1)) THEN CharAt(part, 1) ELSE "") \o DigitsOf(SubSeq(part, 2, Len(part)))

RECURSIVE AzureVcpus(_, _)
\* The loop over the words of the description: the digits of the last word
\* that names a family and holds a digit.
AzureVcpus(parts, vcpus) ==
  IF parts = <<>> THEN vcpus
  ELSE LET part == Head(parts)
           digits == DigitsOf(part)
       IN AzureVcpus(Tail(parts),
                     IF HasAzureFamily(part) /\ Len(digits) > 0
                       THEN ParseInt(digits).val ELSE vcpus)

GbPerVcpu == 6

\* The body of the loop of process_gpu_instances for one item: the record
\* it appends, if any.
AzureClassify(vm) ==
  LET sku_name == Get(vm, "skuName", "")
      product_name == Get(vm, "productName", "")
      at == AzureSeriesOf(sku_name, product_name)
      gpu_info == SERIES_GPU_MAP[at]
      gpu_count == AzureGpuCount(gpu_info, sku_name)
      gpu_memory_gb == Get(AZURE_GPU_MODELS, gpu_info.model, 0)
      vcpus == AzureVcpus(SplitWords(product_name), 0)
      price == Get(vm, "retailPrice", MZero)
      instance == [vm_size |-> sku_name,
                   product_name |-> product_name,
                   description |-> product_name,
                   region |-> Get(vm, "location", "unknown"),
                   currency |-> Get(vm, "currencyCode", "USD"),
                   price_per_hour |-> price,
                   vcpus |-> vcpus,
                   memory_gb |-> vcpus * GbPerVcpu,
                   gpu_model |-> gpu_info.model,
                   gpu_count |-> gpu_count,
                   gpu_memory_gb |-> gpu_memory_gb,
                   total_gpu_memory_gb |-> gpu_count * gpu_memory_gb]
      with_gpu == IF gpu_count > 0
                    THEN Put(instance, "price_per_gpu_hour", Quotient(price, gpu_count))
                    ELSE instance
      with_gb == IF gpu_count > 0 /\ instance.total_gpu_memory_gb > 0
                   THEN Put(with_gpu, "price_per_gpu_gb_hour",
                            Quotient(price, instance.total_gpu_memory_gb))
                   ELSE with_gpu
  IN IF Get(vm, "type", "") # "consumption" THEN <<>>
     ELSE IF ~HasAzureFamily(sku_name) THEN <<>>
     ELSE IF at = 0 THEN <<>>
     ELSE <<with_gb>>

\* The sort key (gpu_model, price_per_hour) of a is less than that of b.
AzureKeyLess(a, b) ==
  \/ StrLess(a.gpu_model, b.gpu_model)
  \/ a.gpu_model = b.gpu_model /\ MLess(a.price_per_hour, b.price_per_hour)

RECURSIVE InsertSorted(_, _)
\* x put after the elements of a sorted list that are not greater than it
InsertSorted(x, sorted) ==
  IF sorted = <<>> THEN <<x>>
  ELSE IF AzureKeyLess(x, Head(sorted)) THEN <<x>> \o sorted
  ELSE <<Head(sorted)>> \o InsertSorted(x, Tail(sorted))

RECURSIVE AzureSort(_)
\* gpu_instances.sort(key=...): a stable sort
AzureSort(list) ==
  IF list = <<>> THEN <<>>
  ELSE InsertSorted(list[Len(list)], AzureSort(SubSeq(list, 1, Len(list) - 1)))

process_gpu_instances(vm_data) ==
  AzureSort(Concat([i \in 1..Len(vm_data) |-> AzureClassify(vm_data[i])]))

\* A plausible slip: nothing is returned after a failure.
AzureCaught_Nothing(vm_data) == <<>>

\* What get_azure_vm_pricing returns after the except clause caught an
\* exception: vm_data as it was when the exception was raised.
AzureCaught(vm_data) == vm_data

\* What one pass of the loop of get_azure_vm_pricing does with the
\* NextPageLink of the page it received (<<>> when the key is missing, else
\* <<link>>). stop: the loop ends; raises: the exception the except clause
\* catches; next_page: the skiptoken of the next request.
AzureFollow(link) ==
  IF link = None \/ Len(link[1]) = 0
    THEN [stop |-> TRUE, raises |-> "", next_page |-> link]
  ELSE IF Contains("skiptoken", link[1])
    THEN LET halves == SplitOn(link[1], "skiptoken=")
         IN IF Len(halves) < 2
              THEN [stop |-> TRUE, raises |-> "IndexError", next_page |-> link]
              ELSE [stop |-> FALSE, raises |-> "",
                    next_page |-> <<SplitOn(halves[2], "&")[1]>>]
  ELSE [stop |-> TRUE, raises |-> "", next_page |-> link]

(***************************************************************************)
(* get_gcp_gpu_pricing.py                                                  *)
(***************************************************************************)

GPU_MACHINE_TYPE_PREFIXES == <<"a3-", "a2-", "g2-", "n1-", "n2-", "n2d-", "c2-", "c2d-", "h3-">>

\* GPU_MODELS of the GCP script, in the order its keys() are iterated
GCP_GPU_MODELS ==
  << [key |-> "nvidia-h100-80gb", name |-> "NVIDIA H100", memory_gb |-> 80],
     [key |-> "nvidia-a100-80gb", name |-> "NVIDIA A100", memory_gb |-> 80],
     [key |-> "nvidia-a100", name |-> "NVIDIA A100", memory_gb |-> 40],
     [key |-> "nvidia-l4", name |-> "NVIDIA L4", memory_gb |-> 24],
     [key |-> "nvidia-t4", name |-> "NVIDIA T4", memory_gb |-> 16],
     [key |-> "nvidia-v100", name |-> "NVIDIA V100", memory_gb |-> 16],
     [key |-> "nvidia-p100", name |-> "NVIDIA P100", memory_gb |-> 16],
     [key |-> "nvidia-p4", name |-> "NVIDIA P4", memory_gb |-> 8],
     [key |-> "nvidia-k80", name |-> "NVIDIA K80", memory_gb |-> 12] >>

\* MACHINE_GPU_MAP in the order it is iterated
MACHINE_GPU_MAP ==
  << [series |-> "a3", model |-> "nvidia-h100-80gb", default_count |-> 8],
     [series |-> "a2", model |-> "nvidia-a100", default_count |-> 4],
     [series |-> "g2", model |-> "nvidia-l4", default_count |-> 1],
     [series |-> "h3", model |-> "nvidia-h100-80gb", default_count |-> 8] >>

HighGpuCount == 8

StandardGpuCount == 4

\* sku.get('category', {}).get(field, '')
GcpCategory(sku, field) == Get(Get(sku, "category", <<>>), field, "")

\* One pass of the inner loop over tieredRates: the first rate whose units
\* or nanos are positive replaces price, and the loop breaks.
GcpTierPrice(rates, price) ==
  LET NonZero(i) == \/ Get(Get(rates[i], "unitPrice", <<>>), "units", 0) > 0
                    \/ Get(Get(rates[i], "unitPrice", <<>>), "nanos", 0) > 0
      at == FirstWhere({idx \in 1..Len(rates) : NonZero(idx)})
  IN IF at = 0 THEN price
     ELSE Money(Get(rates[at].unitPrice, "units", 0), Get(rates[at].unitPrice, "nanos", 0))

RECURSIVE GcpPriceLoop(_, _)
\* The outer loop over pricingInfo, which the break does not leave.
GcpPriceLoop(pricing_info, price) ==
  IF pricing_info = <<>> THEN price
  ELSE GcpPriceLoop(Tail(pricing_info),
                    GcpTierPrice(Get(Get(Head(pricing_info), "pricingExpression", <<>>),
                                     "tieredRates", <<>>), price))

\* "Get pricing": price, None when no rate is positive
GcpPrice(sku) == GcpPriceLoop(Get(sku, "pricingInfo", <<>>), None)

\* "Check if it's a GPU accelerator"
GcpIsAttachment(sku) ==
  /\ GcpCategory(sku, "resourceFamily") = "Compute"
  /\ Contains("GPU", Get(sku, "description", ""))
  /\ Contains("cost", Lower(Get(sku, "description", "")))

\* "Extract GPU type from description": the position in GPU_MODELS of the
\* first key named in the description, 0 when there is none.
GcpGpuType(description) ==
  LET upper == Upper(description)
      Named(i) == \/ Contains(Upper(GCP_GPU_MODELS[i].key), upper)
                  \/ Contains(Upper(GCP_GPU_MODELS[i].name), upper)
  IN FirstWhere({idx \in 1..Len(GCP_GPU_MODELS) : Named(idx)})

RECURSIVE GcpPutRegions(_, _, _, _)
\* The loop over the regions of one attachment SKU.
GcpPutRegions(gpu_attachments, regions, gpu_type, entry) ==
  IF regions = <<>> THEN gpu_attachments
  ELSE LET region == Head(regions)
           of_region == Get(gpu_attachments, region, <<>>)
       IN GcpPutRegions(Put(gpu_attachments, region, Put(of_region, gpu_type, entry)),
                        Tail(regions), gpu_type, entry)

RECURSIVE GcpAttachments(_, _)
\* The first loop of filter_gpu_instances: gpu_attachments after it.
GcpAttachments(skus, gpu_attachments) ==
  IF skus = <<>> THEN gpu_attachments
  ELSE LET sku == Head(skus)
           at == GcpGpuType(sku.description)
           price == GcpPrice(sku)
           entry == [price_per_hour |-> price,
                     price_per_hour_usd |-> price,
                     description |-> sku.description,
                     gpu_model |-> GCP_GPU_MODELS[at].name,
                     memory_gb |-> GCP_GPU_MODELS[at].memory_gb]
       IN GcpAttachments(Tail(skus),
            IF GcpIsAttachment(sku) /\ at # 0
              THEN GcpPutRegions(gpu_attachments, Get(sku, "serviceRegions", <<>>),
                                 GCP_GPU_MODELS[at].key, entry)
              ELSE gpu_attachments)

\* float(s) for a word: an optional sign, digits and at most one point, as
\* <<digits without the point, number of digits after it>>; other words
\* raise ValueError (ok is FALSE).
ParseFloat(s) ==
  LET signed == Len(s) > 0 /\ CharAt(s, 1) \in {"-", "+"}
      body == IF signed THEN SubSeq(s, 2, Len(s)) ELSE s
      halves == SplitOn(body, ".")
      digits == IF Len(halves) = 2 THEN halves[1] \o halves[2] ELSE body
      value == IF signed /\ CharAt(s, 1) = "-" THEN -DigitsValue(digits) ELSE DigitsValue(digits)
  IN IF Len(halves) > 2 \/ ~AllDigits(digits) THEN [ok |-> FALSE, val |-> <<0, 0>>]
     ELSE [ok |-> TRUE, val |-> <<value, IF Len(halves) = 2 THEN Len(halves[2]) ELSE 0>>]

RECURSIVE GcpSizes(_, _, _)
\* "Try to extract CPU and memory information from the description": the
\* loop from word i (counted from 0) on.
GcpSizes(parts, i, details) ==
  IF i >= Len(parts) THEN details
  ELSE LET part == Lower(parts[i + 1])
           before == PyIndex(parts, i - 1)
           with_cpu == IF part \in {"vcpu", "vcpus"} /\ ParseInt(before).ok
                         THEN Put(details, "vcpus", ParseInt(before).val)
                         ELSE details
           with_mem == IF Contains("gb", part) /\ i > 0 /\ ParseFloat(before).ok
                         THEN Put(with_cpu, "memory_gb", ParseFloat(before).val)
                         ELSE with_cpu
       IN GcpSizes(parts, i + 1, with_mem)

RECURSIVE GcpCountLoop(_, _, _)
\* "Try to extract the GPU count from the description": the loop from word
\* i (counted from 0) on; parts[i-1] of the first word is the last word.
GcpCountLoop(parts, i, gpu_count) ==
  IF i >= Len(parts) THEN gpu_count
  ELSE LET before == ParseInt(PyIndex(parts, i - 1))
       IN GcpCountLoop(parts, i + 1,
                       IF Lower(parts[i + 1]) \in {"gpu", "gpus"} /\ before.ok
                         THEN before.val ELSE gpu_count)

\* A plausible slip: the two tests in the other order.
GcpSizeCount_StandardFirst(machine_type, default_count) ==
  LET lower == Lower(machine_type)
  IN IF Contains("standard", lower) THEN StandardGpuCount
     ELSE IF Contains("highgpu", lower) THEN HighGpuCount
     ELSE default_count

\* "Adjust count based on machine type size"
GcpSizeCount(machine_type, default_count) ==
  LET lower == Lower(machine_type)
  IN IF Contains("highgpu", lower) THEN HighGpuCount
     ELSE IF Contains("standard", lower) THEN StandardGpuCount
     ELSE default_count

\* gpu_count of a VM SKU of machine series at (a position in
\* MACHINE_GPU_MAP)
GcpGpuCount(description, at) ==
  GcpCountLoop(SplitWords(description), 0,
               GcpSizeCount(description, MACHINE_GPU_MAP[at].default_count))

\* A plausible slip: the price of the VM alone divided by the count.
GcpDerive_VmPriceOnly(details, gpu_price, gpu_count) ==
  LET total == MAdd(details.price_per_hour, gpu_price)
      per_gpu == Quotient(details.price_per_hour, gpu_count)
      priced == Put(Put(Put(Put(details, "total_price_per_hour", total),
                            "total_price_per_hour_usd", total),
                        "price_per_gpu_hour", per_gpu),
                    "price_per_gpu_hour_usd", per_gpu)
      per_gb == Quotient(total, details.total_gpu_memory_gb)
  IN IF details.total_gpu_memory_gb > 0
       THEN Put(Put(priced, "price_per_gpu_gb_hour", per_gb), "price_per_gpu_gb_hour_usd", per_gb)
       ELSE priced

\* "Calculate derived metrics" for a priced instance
GcpDerive(details, gpu_price, gpu_count) ==
  LET total == MAdd(details.price_per_hour, gpu_price)
      per_gpu == Quotient(total, gpu_count)
      priced == Put(Put(Put(Put(details, "total_price_per_hour", total),
                            "total_price_per_hour_usd", total),
                        "price_per_gpu_hour", per_gpu),
                    "price_per_gpu_hour_usd", per_gpu)
      per_gb == Quotient(total, details.total_gpu_memory_gb)
  IN IF details.total_gpu_memory_gb > 0
       THEN Put(Put(priced, "price_per_gpu_gb_hour", per_gb), "price_per_gpu_gb_hour_usd", per_gb)
       ELSE priced

\* A plausible slip: the total of one GPU instead of gpu_count GPUs.
GcpJoined_OneGpu(details, att, gpu_count) ==
  Put(Put(Put(Put(details, "gpu_model", att.gpu_model),
              "gpu_memory_gb", att.memory_gb),
          "gpu_count", gpu_count),
      "total_gpu_memory_gb", att.memory_gb)

\* "Add GPU information": the four GPU fields of instance_details, set anew
\* for every region that has the attachment att.
GcpJoined(details, att, gpu_count) ==
  Put(Put(Put(Put(details, "gpu_model", att.gpu_model),
              "gpu_memory_gb", att.memory_gb),
          "gpu_count", gpu_count),
      "total_gpu_memory_gb", gpu_count * att.memory_gb)

\* One pass of the loop "Add GPU information" for a region that has the
\* attachment att: the exception it raises, or instance_details after it.
GcpJoin(details, att, gpu_count) ==
  LET joined == GcpJoined(details, att, gpu_count)
  IN IF att.price_per_hour = None
       \* None * gpu_count
       THEN [raises |-> "TypeError", details |-> joined]
     \* if instance_details['price_per_hour']: None and 0.0 are false
     ELSE IF details.price_per_hour = None \/ details.price_per_hour = MZero
       THEN [raises |-> "", details |-> joined]
     ELSE IF gpu_count = 0
       \* total_price_per_hour / gpu_count
       THEN [raises |-> "ZeroDivisionError", details |-> joined]
     ELSE [raises |-> "",
           details |-> GcpDerive(joined, MMul(att.price_per_hour, gpu_count), gpu_count)]

RECURSIVE GcpRegionLoop(_, _, _, _, _, _)
\* The loop over the regions of a VM SKU. Every append adds the one dict
\* instance_details, so the list holds appended references to its final
\* value.
GcpRegionLoop(regions, details, gpu_model, gpu_count, gpu_attachments, appended) ==
  IF regions = <<>> THEN [raises |-> "", out |-> Repeat(details, appended)]
  ELSE LET region == Head(regions)
           matches == /\ region \in DOMAIN gpu_attachments
                      /\ gpu_model \in DOMAIN gpu_attachments[region]
           one == GcpJoin(details, gpu_attachments[region][gpu_model], gpu_count)
       IN IF ~matches
            THEN GcpRegionLoop(Tail(regions), details, gpu_model, gpu_count,
                               gpu_attachments, appended)
          ELSE IF one.raises # "" THEN [raises |-> one.raises, out |-> <<>>]
          ELSE GcpRegionLoop(Tail(regions), one.details, gpu_model, gpu_count,
                             gpu_attachments, appended + 1)

\* The body of the second loop of filter_gpu_instances for one SKU: the
\* records it appends, or the exception it raises.
GcpClassify(sku, gpu_attachments) ==
  LET description == Get(sku, "description", "")
      lower == Lower(description)
      IsPrefix(i) == Contains(GPU_MACHINE_TYPE_PREFIXES[i], lower)
      IsSeries(i) == StartsWith(lower, MACHINE_GPU_MAP[i].series)
      at == FirstWhere({idx \in 1..Len(MACHINE_GPU_MAP) : IsSeries(idx)})
      price == GcpPrice(sku)
      instance_details ==
        GcpSizes(SplitWords(description), 0,
                 [machine_type |-> description,
                  description |-> description,
                  regions |-> Get(sku, "serviceRegions", <<>>),
                  vcpus |-> 0,
                  memory_gb |-> <<0, 0>>])
      priced == Put(Put(instance_details, "price_per_hour", price), "price_per_hour_usd", price)
  IN IF \/ GcpCategory(sku, "resourceFamily") # "Compute"
        \/ GcpCategory(sku, "serviceDisplayName") # "Compute Engine"
        \/ FirstWhere({idx \in 1..Len(GPU_MACHINE_TYPE_PREFIXES) : IsPrefix(idx)}) = 0
        \/ Len(description) = 0
        \/ at = 0
       THEN [raises |-> "", out |-> <<>>]
     ELSE GcpRegionLoop(priced.regions, priced, MACHINE_GPU_MAP[at].model,
                        GcpGpuCount(description, at), gpu_attachments, 0)

RECURSIVE GcpInstances(_, _)
\* The second loop of filter_gpu_instances.
GcpInstances(skus, gpu_attachments) ==
  IF skus = <<>> THEN [raises |-> "", out |-> <<>>]
  ELSE LET one == GcpClassify(Head(skus), gpu_attachments)
           rest == GcpInstances(Tail(skus), gpu_attachments)
       IN IF one.raises # "" THEN one
          ELSE IF rest.raises # "" THEN rest
          ELSE [raises |-> "", out |-> one.out \o rest.out]

\* filter_gpu_instances(skus): the list it returns, or the exception it
\* raises.
filter_gpu_instances(skus) == GcpInstances(skus, GcpAttachments(skus, <<>>))

(***************************************************************************)
(* The catalogs a run can meet                                             *)
(***************************************************************************)

\* The longest catalog (instance types, SKUs) of a run.
MaxRecords == 2

\* The last reading of the clock.
MaxTime == 2

AwsPayloads ==
  [plain |-> [InstanceType |-> "p4d.24xlarge",
              VCpuInfo |-> [DefaultVCpus |-> 96],
              MemoryInfo |-> [SizeInMiB |-> 1179648]],
   gpus |-> [InstanceType |-> "p5.48xlarge",
             VCpuInfo |-> [DefaultVCpus |-> 192],
             GpuInfo |-> [Gpus |-> <<[Name |-> "H100", Count |-> 8,
                                      MemoryInfo |-> [SizeInMiB |-> 81920]]>>]],
   nogpus |-> [InstanceType |-> "g5.xlarge", GpuInfo |-> [Gpus |-> <<>>]],
   nokey |-> [InstanceType |-> "g6e.12xlarge", GpuInfo |-> [TotalGpuMemoryInMiB |-> 196608]],
   cpu |-> [InstanceType |-> "m5.large", VCpuInfo |-> [DefaultVCpus |-> 2]],
   metal |-> [InstanceType |-> "g5g.metal"],
   arm |-> [InstanceType |-> "g5g.2xlarge"],
   dn |-> [InstanceType |-> "p3dn.24xlarge"]]

AwsResponses ==
  [usd |-> [raises |-> FALSE, PriceList |-> << << << [USD |-> Money(32, 772600000)] >> >> >>],
   cny |-> [raises |-> FALSE, PriceList |-> << << << [CNY |-> Money(50, 0)] >> >> >>],
   eur |-> [raises |-> FALSE, PriceList |-> << << << [EUR |-> Money(3, 0)] >> >> >>],
   nodim |-> [raises |-> FALSE, PriceList |-> << << <<>> >> >>],
   noterms |-> [raises |-> FALSE, PriceList |-> << <<>> >>],
   empty |-> [raises |-> FALSE, PriceList |-> <<>>],
   fails |-> [raises |-> TRUE, PriceList |-> <<>>]]

\* An instance type of the EC2 catalog with the answer of the pricing API
\* for it.
AwsEntries ==
  { [payload |-> AwsPayloads[e[1]], response |-> AwsResponses[e[2]]] :
      e \in { <<"plain", "usd">>, <<"plain", "empty">>, <<"gpus", "usd">>, <<"gpus", "cny">>,
              <<"nogpus", "usd">>, <<"nokey", "eur">>, <<"cpu", "usd">>, <<"metal", "usd">>,
              <<"arm", "noterms">>, <<"arm", "nodim">>, <<"dn", "fails">>, <<"dn", "usd">> } }

SeqsUpTo(S, n) == UNION {[1..k -> S] : k \in 0..n}

AwsCatalogs == SeqsUpTo(AwsEntries, MaxRecords)

\* The answer of the pricing API for a name: that of the first entry of the
\* catalog with this name.
AwsPricing(cat) ==
  [name \in {cat[i].payload.InstanceType : i \in 1..Len(cat)} |->
     cat[CHOOSE i \in 1..Len(cat) :
           /\ cat[i].payload.InstanceType = name
           /\ \A j \in 1..(i - 1) : cat[j].payload.InstanceType # name].response]

\* The most pages the Azure API holds.
MaxPages == 2

\* The most requests of one run of get_azure_vm_pricing that are followed.
MaxRequests == 4

AzureVms ==
  [h100 |-> [type |-> "consumption", skuName |-> "Standard_NC24ads_H100_v5",
             productName |-> "Virtual Machines NCads_H100_v5 Series",
             retailPrice |-> Money(8, 0), location |-> "eastus", currencyCode |-> "USD"],
   k80 |-> [type |-> "consumption", skuName |-> "Standard_NC12",
            productName |-> "Virtual Machines NC12 Series",
            retailPrice |-> Money(1, 800000000), location |-> "eastus"],
   k80b |-> [type |-> "consumption", skuName |-> "NC6 Low Priority",
             productName |-> "Virtual Machines NC Series",
             retailPrice |-> Money(0, 900000000), location |-> "westus", currencyCode |-> "USD"],
   nv6 |-> [type |-> "consumption", skuName |-> "Standard_NV6",
            productName |-> "Virtual Machines NV6 Series"],
   t4 |-> [type |-> "consumption", skuName |-> "Standard_NC16as_T4_v3",
           productName |-> "Virtual Machines NCasT4_v3 Series",
           retailPrice |-> Money(1, 200000000), location |-> "eastus"],
   reserved |-> [type |-> "reservation", skuName |-> "Standard_NC12",
                 productName |-> "Virtual Machines NC Series", retailPrice |-> Money(900, 0)],
   cpu |-> [type |-> "consumption", skuName |-> "Standard_D4s_v3",
            productName |-> "Virtual Machines Dsv3 Series", retailPrice |-> Money(0, 200000000)],
   nd |-> [type |-> "consumption", skuName |-> "ND96asr A100 v4",
           productName |-> "Virtual Machines NDasrA100 v4 Series",
           retailPrice |-> Money(27, 0)]]

\* A page of the Azure API as the vendor holds it: its Items and the way
\* its NextPageLink is written when another page follows it.
AzurePagePool ==
  { [Items |-> <<AzureVms.h100>>, link |-> "token"],
    [Items |-> <<AzureVms.k80, AzureVms.reserved>>, link |-> "amp"],
    [Items |-> <<AzureVms.nv6>>, link |-> "skip"],
    [Items |-> <<>>, link |-> "blank"],
    [Items |-> <<AzureVms.cpu, AzureVms.nd>>, link |-> "noeq"],
    [Items |-> <<AzureVms.t4, AzureVms.k80b>>, link |-> "token"] }

RECURSIVE ToStr(_)
\* str(n) for n >= 0
ToStr(n) == IF n < 10 THEN CharAt(DigitChars, n + 1) ELSE ToStr(n \div 10) \o CharAt(DigitChars, (n % 10) + 1)

\* The NextPageLink of a page that is followed by page k.
AzureLink(kind, k) ==
  CASE kind = "token" -> "prices?$skiptoken=" \o ToStr(k)
    [] kind = "amp" -> "prices?$skiptoken=" \o ToStr(k) \o "&$top=100"
    [] kind = "skip" -> "prices?$skip=" \o ToStr(k)
    [] kind = "blank" -> "prices?$skiptoken=&$top=100"
    [] OTHER -> "prices?skiptoken"

\* The responses of the Azure API: page k of n carries a NextPageLink iff
\* k < n.
AzureCatalogs ==
  { [k \in 1..Len(pages) |->
       IF k < Len(pages)
         THEN [Items |-> pages[k].Items, NextPageLink |-> AzureLink(pages[k].link, k + 1)]
         ELSE [Items |-> pages[k].Items]] :
    pages \in SeqsUpTo(AzurePagePool, MaxPages) \ {<<>>} }

\* The page the API answers a request with: the first page without a
\* skiptoken, page k for the skiptoken str(k), and an HTTP error status (0)
\* for any other skiptoken.
AzurePageFor(pages, token) ==
  IF token = None \/ Len(token[1]) = 0 THEN 1
  ELSE IF ParseInt(token[1]).ok /\ ParseInt(token[1]).val \in 1..Len(pages)
    THEN ParseInt(token[1]).val
  ELSE 0

Rate(units, nanos) == [unitPrice |-> [units |-> units, nanos |-> nanos]]

Tiers(rates) == [pricingExpression |-> [tieredRates |-> rates]]

GcpVmCategory == [resourceFamily |-> "Compute", serviceDisplayName |-> "Compute Engine"]

GcpGpuSkus ==
  [us |-> [category |-> GcpVmCategory, description |-> "Nvidia H100 80GB GPU attached cost",
           pricingInfo |-> <<Tiers(<<Rate(0, 0), Rate(2, 0)>>)>>,
           serviceRegions |-> <<"us-central1">>],
   eu |-> [category |-> GcpVmCategory, description |-> "nvidia-h100-80gb GPU cost Europe",
           pricingInfo |-> <<Tiers(<<Rate(3, 500000000)>>)>>,
           serviceRegions |-> <<"europe-west4">>],
   free |-> [category |-> GcpVmCategory, description |-> "Nvidia H100 80GB GPU cost Asia",
             pricingInfo |-> <<Tiers(<<Rate(0, 0)>>)>>,
             serviceRegions |-> <<"asia-east1">>],
   l4 |-> [category |-> GcpVmCategory, description |-> "Nvidia L4 GPU cost",
           pricingInfo |-> <<Tiers(<<Rate(0, 700000000)>>), Tiers(<<Rate(0, 0), Rate(0, 600000000)>>)>>,
           serviceRegions |-> <<"us-central1", "europe-west4">>]]

\* The GPU attachment SKUs of a catalog.
GcpGpuLists ==
  { <<>>, <<GcpGpuSkus.us>>, <<GcpGpuSkus.us, GcpGpuSkus.eu>>,
    <<GcpGpuSkus.free, GcpGpuSkus.us>>, <<GcpGpuSkus.l4, GcpGpuSkus.eu>> }

GcpVmSku(description, regions, pricing_info) ==
  [category |-> GcpVmCategory, description |-> description,
   pricingInfo |-> pricing_info, serviceRegions |-> regions]

GcpVmSkus ==
  { GcpVmSku("A3-highgpu instance with 8 GPUs", <<"us-central1", "europe-west4">>,
             <<Tiers(<<Rate(1, 500000000)>>)>>),
    GcpVmSku("a3-standard core with GPU", <<"us-central1">>, <<Tiers(<<Rate(1, 0)>>)>>),
    GcpVmSku("a3-mega instance GPU", <<"europe-west4", "us-central1">>,
             <<Tiers(<<Rate(0, 0), Rate(0, 250000000)>>), Tiers(<<Rate(4, 0)>>)>>),
    GcpVmSku("a3-highgpu standard GPU", <<"us-central1">>, <<>>),
    GcpVmSku("a3-edge 0 GPUs", <<"us-central1">>, <<Tiers(<<Rate(1, 0)>>)>>),
    GcpVmSku("a3-edge -2 GPUs", <<"us-central1">>, <<Tiers(<<Rate(1, 0)>>)>>),
    GcpVmSku("a3-highgpu 4 vCPU 32.5 GB", <<"us-central1">>, <<>>),
    GcpVmSku("a3-mega in Asia", <<"asia-east1">>, <<Tiers(<<Rate(1, 0)>>)>>),
    GcpVmSku("g2-standard 2 GPUs 8 vCPUs", <<"europe-west4">>, <<Tiers(<<Rate(0, 0)>>)>>),
    GcpVmSku("G2-custom instance", <<"us-central1">>, <<Tiers(<<Rate(0, 800000000)>>)>>),
    GcpVmSku("n1-standard core", <<"us-central1">>, <<Tiers(<<Rate(0, 50000000)>>)>>),
    [category |-> [resourceFamily |-> "Storage"], description |-> "a3-highgpu disk GPU"] }

GcpCatalogs ==
  { gpus \o vms : gpus \in GcpGpuLists, vms \in SeqsUpTo(GcpVmSkus, MaxRecords) }

(***************************************************************************)
(* save_results, which the three scripts share word for word but for the   *)
(* vendor's name                                                           *)
(***************************************************************************)

\* f"{vendor}_gpu_instances_{timestamp}.json", timestamp the clock's
\* reading t (strftime)
TimestampedName(v, t) == v \o "_gpu_instances_" \o ToStr(t) \o ".json"

\* f"{vendor}_gpu_instances.json"
StaticName(v) == v \o "_gpu_instances.json"

\* The document json.dump writes: generated_at is the clock's reading t
\* (isoformat). json.dump is a function of the document, and two documents
\* that differ are written as different bytes.
Document(t, list) == [generated_at |-> t, instances |-> list]

\* save_results(instances) with the clock reading t0 at the strftime call,
\* t1 at the first json.dump and t2 at the second: the output directory
\* after it.
save_results(dir, v, list, t0, t1, t2) ==
  Put(Put(dir, TimestampedName(v, t0), Document(t1, list)), StaticName(v), Document(t2, list))

(***************************************************************************)
(* main() of each script                                                   *)
(***************************************************************************)

VARIABLES
  vendor,     \* the script that runs: "aws", "azure" or "gcp"
  catalog,    \* what the vendor's APIs hold during this run
  pc,         \* the statement of main() that runs next
  raw,        \* the list the fetch returned (Azure: vm_data so far)
  instances,  \* the list of records handed to the next stage
  next_page,  \* Azure: next_page of get_azure_vm_pricing
  requests,   \* Azure: the pages requested so far, 0 for a failed request
  caught,     \* the exception a fetch caught and logged, "" when none
  now,        \* the clock
  files,      \* the output directory: file name -> document
  written,    \* the names of the files written by this run, in order
  err         \* the exception that ended main(), "" when there is none

vars == <<vendor, catalog, pc, raw, instances, next_page, requests, caught, now, files, written, err>>

\* What an earlier run left in the output directory.
OldDocument == Document(0, <<>>)

Init ==
  /\ vendor \in {"aws", "azure", "gcp"}
  /\ catalog \in CASE vendor = "aws" -> AwsCatalogs
                   [] vendor = "azure" -> AzureCatalogs
                   [] OTHER -> GcpCatalogs
  /\ pc = "fetch"
  /\ raw = <<>>
  /\ instances = <<>>
  /\ next_page = None
  /\ requests = <<>>
  /\ caught = ""
  /\ now = 0
  /\ files = (StaticName(vendor) :> OldDocument)
  /\ written = <<>>
  /\ err = ""

\* instance_types = get_instance_types(): the paginator fails on a
\* transport error, and the exception leaves main().
AwsGetInstanceTypes ==
  /\ vendor = "aws" /\ pc = "fetch"
  /\ \E transport_ok \in BOOLEAN :
       LET got == get_instance_types([i \in 1..Len(catalog) |-> catalog[i].payload])
       IN IF ~transport_ok
            THEN /\ pc' = "raised" /\ err' = "ClientError" /\ UNCHANGED <<raw, instances>>
          ELSE IF got.raises # ""
            THEN /\ pc' = "raised" /\ err' = got.raises /\ UNCHANGED <<raw, instances>>
          ELSE /\ pc' = "pricing" /\ raw' = got.out /\ instances' = got.out /\ UNCHANGED err
  /\ UNCHANGED <<vendor, catalog, next_page, requests, caught, now, files, written>>

\* instances_with_pricing = get_instance_pricing(instance_types)
AwsGetInstancePricing ==
  /\ vendor = "aws" /\ pc = "pricing"
  /\ instances' = get_instance_pricing(instances, AwsPricing(catalog))
  /\ pc' = "metrics"
  /\ UNCHANGED <<vendor, catalog, raw, next_page, requests, caught, now, files, written, err>>

\* final_instances = calculate_derived_metrics(instances_with_pricing)
AwsCalculateDerivedMetrics ==
  /\ vendor = "aws" /\ pc = "metrics"
  /\ instances' = calculate_derived_metrics(instances)
  /\ pc' = "save"
  /\ UNCHANGED <<vendor, catalog, raw, next_page, requests, caught, now, files, written, err>>

\* One pass of the loop of get_azure_vm_pricing: a request, which a
\* transport error or an HTTP error status fails, and what follows it. The
\* except clause ends the function with vm_data as it is.
AzureRequest ==
  /\ vendor = "azure" /\ pc = "fetch"
  /\ Len(requests) < MaxRequests
  /\ \E transport_ok \in BOOLEAN :
       LET k == AzurePageFor(catalog, next_page)
           page == catalog[k]
           follow == AzureFollow(IF "NextPageLink" \in DOMAIN page
                                   THEN <<page.NextPageLink>> ELSE None)
       IN IF ~transport_ok \/ k = 0
            THEN /\ requests' = Append(requests, 0)
                 /\ caught' = "RequestException"
                 /\ raw' = AzureCaught(raw)
                 /\ pc' = "process"
                 /\ UNCHANGED next_page
          ELSE /\ requests' = Append(requests, k)
               /\ raw' = raw \o page.Items
               /\ next_page' = follow.next_page
               /\ caught' = follow.raises
               /\ pc' = IF follow.stop THEN "process" ELSE "fetch"
  /\ UNCHANGED <<vendor, catalog, instances, now, files, written, err>>

\* gpu_instances = process_gpu_instances(vm_pricing_data)
AzureProcessGpuInstances ==
  /\ vendor = "azure" /\ pc = "process"
  /\ instances' = process_gpu_instances(raw)
  /\ pc' = "save"
  /\ UNCHANGED <<vendor, catalog, raw, next_page, requests, caught, now, files, written, err>>

\* products = get_compute_engine_products(): the except clause turns a
\* failed request into the empty list.
GcpGetComputeEngineProducts ==
  /\ vendor = "gcp" /\ pc = "fetch"
  /\ \E transport_ok \in BOOLEAN :
       IF transport_ok
         THEN raw' = catalog /\ UNCHANGED caught
         ELSE raw' = <<>> /\ caught' = "RequestException"
  /\ pc' = "filter"
  /\ UNCHANGED <<vendor, catalog, instances, next_page, requests, now, files, written, err>>

\* gpu_instances = filter_gpu_instances(products)
GcpFilterGpuInstances ==
  /\ vendor = "gcp" /\ pc = "filter"
  /\ LET got == filter_gpu_instances(raw)
     IN IF got.raises # ""
          THEN /\ pc' = "raised" /\ err' = got.raises /\ UNCHANGED instances
          ELSE /\ pc' = "save" /\ instances' = got.out /\ UNCHANGED err
  /\ UNCHANGED <<vendor, catalog, raw, next_page, requests, caught, now, files, written>>

\* save_results(instances): the clock is read for the file name and once
\* for each of the two documents.
SaveResults ==
  /\ pc = "save"
  /\ \E t0 \in now..MaxTime : \E t1 \in t0..MaxTime : \E t2 \in t1..MaxTime :
       /\ files' = save_results(files, vendor, instances, t0, t1, t2)
       /\ written' = <<TimestampedName(vendor, t0), StaticName(vendor)>>
       /\ now' = t2
  /\ pc' = "done"
  /\ UNCHANGED <<vendor, catalog, raw, instances, next_page, requests, caught, err>>

Next ==
  \/ AwsGetInstanceTypes
  \/ AwsGetInstancePricing
  \/ AwsCalculateDerivedMetrics
  \/ AzureRequest
  \/ AzureProcessGpuInstances
  \/ GcpGetComputeEngineProducts
  \/ GcpFilterGpuInstances
  \/ SaveResults

Spec == Init /\ [][Next]_vars

(***************************************************************************)
(* The claims                                                              *)
(***************************************************************************)

Records == {instances[i] : i \in 1..Len(instances)}

\* C1: in all three pipelines every emitted record has
\* total_gpu_memory_gb = gpu_count * gpu_memory_gb, also a GCP record that
\* is rewritten once per matching region.
C1_TotalIsCountTimesMemory ==
  \A r \in Records : r.total_gpu_memory_gb = r.gpu_count * r.gpu_memory_gb

\* A GCP record that two regions rewrote, and so was emitted twice.
C1_Witness ==
  /\ vendor = "gcp" /\ pc = "done"
  /\ \E i, j \in 1..Len(instances) :
       i < j /\ instances[i] = instances[j] /\ instances[i].total_gpu_memory_gb = 640

C4_Nc24adsH100 ==
  \A r \in Records :
    ( /\ vendor = "azure"
      /\ r.vm_size = "Standard_NC24ads_H100_v5"
      /\ SERIES_GPU_MAP[AzureSeriesOf(r.vm_size, r.product_name)].series = "NCads_H100_v5" )
    => r.gpu_model = "NVIDIA H100" /\ r.gpu_count = 8

\* C5: an AWS instance type whose payload carries a non-empty GpuInfo.Gpus
\* list is emitted with the Name and the Count of the first entry of that
\* list as gpu_model and gpu_count.
C5_ApiFieldFirst ==
  vendor = "aws" =>
    \A i \in 1..Len(catalog) : \A r \in Records :
      LET payload == catalog[i].payload
      IN ( /\ r.instance_type = payload.InstanceType
           /\ "GpuInfo" \in DOMAIN payload
           /\ "Gpus" \in DOMAIN payload.GpuInfo
           /\ Len(payload.GpuInfo.Gpus) > 0 )
         => /\ r.gpu_model = <<payload.GpuInfo.Gpus[1].Name>>
            /\ r.gpu_count = payload.GpuInfo.Gpus[1].Count

\* C6: one record of an unexpected shape (an AWS payload whose Gpus list is
\* empty, a GCP attachment whose price is null) never aborts the batch: no
\* run ends with the IndexError or the TypeError such a record raises.
C6_BadRecordNeverAborts == err \notin {"IndexError", "TypeError"}

\* C7: in the AWS and GCP pipelines a failed catalog fetch is fatal:
\* save_results is not reached, no file is written and the file of the
\* earlier run is left as it was.
C7_FetchFailureWritesNothing ==
  ( \/ vendor = "aws" /\ err = "ClientError"
    \/ vendor = "gcp" /\ caught = "RequestException" )
  => /\ pc \notin {"save", "done"}
     /\ written = <<>>
     /\ files = (StaticName(vendor) :> OldDocument)

\* C8: when no request fails, get_azure_vm_pricing returns the Items of
\* every page the vendor has, in order, having requested every page once.
C8_AllPagesFetched ==
  ( /\ vendor = "azure"
    /\ pc \in {"process", "save", "done"}
    /\ \A i \in 1..Len(requests) : requests[i] # 0 )
  => /\ raw = Concat([k \in 1..Len(catalog) |-> catalog[k].Items])
     /\ requests = [k \in 1..Len(catalog) |-> k]

\* C9: one call of save_results leaves the same document, generated_at
\* included, in the timestamped file and in the fixed file.
C9_SameDocumentTwice ==
  pc = "done" => files[written[1]] = files[written[2]]

\* The words of a description that the count is read before.
GpuWords(parts) == {i \in 0..(Len(parts) - 1) : Lower(parts[i + 1]) \in {"gpu", "gpus"}}

\* A description that has the word GPU and no number before any such word.
GpuWithoutCount(description) ==
  LET parts == SplitWords(description)
  IN /\ GpuWords(parts) # {}
     /\ \A i \in GpuWords(parts) : ~ParseInt(PyIndex(parts, i - 1)).ok

\* C10: as claimed: the GCP record of an a3 VM SKU whose description has
\* the word GPU with no number before it has gpu_count 8, whatever other
\* words the description holds.
C10_A3DefaultAlways ==
  \A r \in Records :
    ( /\ vendor = "gcp"
      /\ StartsWith(Lower(r.description), "a3")
      /\ GpuWithoutCount(r.description) )
    => r.gpu_count = 8

\* C10, amended: such a record has gpu_count 8, except that it has 4 when
\* the description holds 'standard' and does not hold 'highgpu'.
C10_A3Default ==
  \A r \in Records :
    ( /\ vendor = "gcp"
      /\ StartsWith(Lower(r.description), "a3")
      /\ GpuWithoutCount(r.description) )
    => r.gpu_count = IF /\ Contains("standard", Lower(r.description))
                        /\ ~Contains("highgpu", Lower(r.description))
                       THEN 4 ELSE 8

\* An a3 record that the machine-series default gave its count, and one
\* that 'highgpu' kept at 8 although it is 'standard' too.
C10_Witness ==
  /\ vendor = "gcp" /\ pc = "save"
  /\ \E r \in Records : r.description = "a3-mega instance GPU" /\ r.gpu_count = 8
  /\ \E r \in Records : r.description = "a3-highgpu standard GPU" /\ r.gpu_count = 8

\* Every tiered rate of a SKU, in the order of pricingInfo and, within each
\* entry, of tieredRates.
RatesInOrder(sku) ==
  LET pricing_info == Get(sku, "pricingInfo", <<>>)
  IN Concat([k \in 1..Len(pricing_info) |->
               Get(Get(pricing_info[k], "pricingExpression", <<>>), "tieredRates", <<>>)])

\* The first rate of a SKU that is not zero, None when every rate is zero.
FirstNonZeroRate(sku) == GcpTierPrice(RatesInOrder(sku), None)

\* C11: the price of a GCP SKU, attachment or VM, is the first non-zero
\* tiered rate in the order of pricingInfo and then of tieredRates: every
\* emitted record carries that rate of its SKU as price_per_hour, and every
\* attachment SKU is priced at that rate.
C11_FirstNonZeroRate ==
  ( vendor = "gcp" /\ pc \in {"save", "done", "raised"} ) =>
    \A i \in 1..Len(catalog) :
      /\ \A r \in Records :
           r.description = Get(catalog[i], "description", "")
             => r.price_per_hour = FirstNonZeroRate(catalog[i])
      /\ GcpIsAttachment(catalog[i])
           => GcpPrice(catalog[i]) = FirstNonZeroRate(catalog[i])

\* The payloads of the catalog that carry no GpuInfo at all.
WithoutGpuInfo ==
  {catalog[i].payload : i \in {k \in 1..Len(catalog) : "GpuInfo" \notin DOMAIN catalog[k].payload}}

\* C12: get_instance_types classifies p4d.24xlarge, when the payload has
\* no GPU field, as NVIDIA A100 with 80 GB per GPU and 8 GPUs, 640 GB in
\* all.
C12_P4d24xlarge ==
  vendor = "aws" =>
    \A r \in Records :
      ( /\ r.instance_type = "p4d.24xlarge"
        /\ \E payload \in WithoutGpuInfo : payload.InstanceType = r.instance_type )
      => /\ r.gpu_model = <<"NVIDIA A100">>
         /\ r.gpu_memory_gb = 80
         /\ r.gpu_count = 8
         /\ r.total_gpu_memory_gb = 640

\* get_instance_types has returned a record of p4d.24xlarge.
C12_Witness ==
  /\ vendor = "aws" /\ pc = "pricing"
  /\ \E r \in Records :
       /\ r.instance_type = "p4d.24xlarge"
       /\ \E payload \in WithoutGpuInfo : payload.InstanceType = r.instance_type

\* C13: when a request of get_azure_vm_pricing fails, by a transport error
\* or an HTTP error status, the function raises nothing, makes no further
\* request and returns the Items of the pages it received before, in order.
C13_PartialSuccess ==
  vendor = "azure" =>
    \A n \in 1..Len(requests) :
      requests[n] = 0 =>
        /\ n = Len(requests)
        /\ pc \in {"process", "save", "done"}
        /\ err = ""
        /\ raw = Concat([j \in 1..(n - 1) |-> catalog[requests[j]].Items])

\* The second request failed after a first page with Items was received.
C13_Witness ==
  /\ vendor = "azure" /\ pc = "process"
  /\ requests = <<1, 0>>
  /\ raw # <<>>

\* C14: calculate_derived_metrics of the AWS script returns the records it
\* was given, as many and in the same order, each with the fields it had; a
\* record whose price_per_hour_usd is None is returned as it was, with no
\* value for price_per_gpu_hour and price_per_gpu_gb_hour.
C14_UnpricedRetained ==
  [][ ( vendor = "aws" /\ pc = "metrics" /\ pc' = "save" ) =>
        /\ Len(instances') = Len(instances)
        /\ \A i \in 1..Len(instances) :
             /\ \A k \in DOMAIN instances[i] : instances'[i][k] = instances[i][k]
             /\ instances[i].price_per_hour_usd = None =>
                  /\ instances'[i] = instances[i]
                  /\ ~HasValue(instances'[i], "price_per_gpu_hour")
                  /\ ~HasValue(instances'[i], "price_per_gpu_gb_hour") ]_vars

\* calculate_derived_metrics has returned an unpriced record before a
\* priced one.
C14_Witness ==
  /\ vendor = "aws" /\ pc = "save"
  /\ Len(instances) = 2
  /\ instances[1].price_per_hour_usd = None
  /\ instances[2].price_per_hour_usd # None
  /\ HasValue(instances[2], "price_per_gpu_hour")

\* The hourly price field of a record: price_per_hour_usd in the AWS
\* pipeline, price_per_hour in the other two.
OwnPrice(r) == IF vendor = "aws" THEN r.price_per_hour_usd ELSE r.price_per_hour

\* C15, as claimed: a record that carries price_per_gpu_hour carries its
\* own hourly price divided by its gpu_count, in all three pipelines.
C15_OwnPriceOverCount ==
  \A r \in Records :
    HasValue(r, "price_per_gpu_hour")
      => r.price_per_gpu_hour = Quotient(OwnPrice(r), r.gpu_count)

\* C15, amended: such a record carries its own hourly price divided by its
\* gpu_count in the AWS and Azure pipelines; in the GCP pipeline it carries
\* total_price_per_hour divided by gpu_count, where total_price_per_hour is
\* price_per_hour plus gpu_count times the hourly price of the GPU
\* attachment of one of the regions of the record.
C15_PricePerGpuHour ==
  \A r \in Records :
    HasValue(r, "price_per_gpu_hour") =>
      IF vendor = "gcp"
        THEN /\ r.price_per_gpu_hour = Quotient(r.total_price_per_hour, r.gpu_count)
             /\ LET gpu_attachments == GcpAttachments(catalog, <<>>)
                IN \E i \in 1..Len(r.regions) :
                     /\ r.regions[i] \in DOMAIN gpu_attachments
                     /\ \E m \in DOMAIN gpu_attachments[r.regions[i]] :
                          LET att == gpu_attachments[r.regions[i]][m]
                          IN /\ att.gpu_model = r.gpu_model
                             /\ r.total_price_per_hour =
                                  MAdd(r.price_per_hour, MMul(att.price_per_hour, r.gpu_count))
        ELSE r.price_per_gpu_hour = Quotient(OwnPrice(r), r.gpu_count)

\* A GCP record whose price per GPU and hour includes the price of its 8
\* GPU attachments.
C15_Witness ==
  /\ vendor = "gcp" /\ pc = "save"
  /\ \E r \in Records :
       /\ HasValue(r, "price_per_gpu_hour")
       /\ r.gpu_count = 8
       /\ r.total_price_per_hour # r.price_per_hour

\* C16: in every emitted record of every pipeline gpu_count and
\* gpu_memory_gb are not negative, also when the GCP count is the integer
\* read before the word GPU of the description.
C16_NonNegative ==
  \A r \in Records : r.gpu_count >= 0 /\ r.gpu_memory_gb >= 0

\* The family name of an instance type: the text before the first '.'.
FamilyName(name) == SplitOn(name, ".")[1]

\* The positions of GPU_MODEL_MAP whose key is the family name itself.
OwnKey(name) == {k \in 1..Len(GPU_MODEL_MAP) : GPU_MODEL_MAP[k][1] = FamilyName(name)}

\* The payloads of the catalog that give no usable GPU info: no GpuInfo, or
\* a GpuInfo without a non-empty Gpus list.
WithoutUsableGpuInfo ==
  {catalog[i].payload :
     i \in {k \in 1..Len(catalog) :
              \/ "GpuInfo" \notin DOMAIN catalog[k].payload
              \/ "Gpus" \notin DOMAIN catalog[k].payload.GpuInfo
              \/ Len(catalog[k].payload.GpuInfo.Gpus) = 0}}

\* C17: an AWS instance type whose family name is a key of GPU_MODEL_MAP
\* and whose payload gives no usable GPU info is emitted with the model
\* GPU_MODEL_MAP has for that very key and the memory GPU_MEMORY_MAP has for
\* that model, also when another key is a proper prefix of the family name.
C17_OwnFamily ==
  vendor = "aws" =>
    \A r \in Records : \A k \in OwnKey(r.instance_type) :
      (\E payload \in WithoutUsableGpuInfo : payload.InstanceType = r.instance_type)
      => /\ r.gpu_model = <<GPU_MODEL_MAP[k][2]>>
         /\ r.gpu_memory_gb = GPU_MEMORY_MAP[GPU_MODEL_MAP[k][2]]

\* C18: a GCP VM SKU listed in several regions that each have a matching
\* GPU attachment is emitted once per such region, each record with the
\* total_price_per_hour computed from the attachment price of its own
\* region: for every region of a priced record that has an attachment of
\* the record's GPU model, a record of the same SKU carries
\* price_per_hour plus gpu_count times the attachment price of that region.
C18_OwnRegionPrice ==
  ( vendor = "gcp" /\ pc \in {"save", "done"} ) =>
    LET gpu_attachments == GcpAttachments(catalog, <<>>)
    IN \A r \in Records : \A i \in 1..Len(r.regions) :
         ( /\ "total_price_per_hour" \in DOMAIN r
           /\ r.regions[i] \in DOMAIN gpu_attachments )
         => \A m \in DOMAIN gpu_attachments[r.regions[i]] :
              LET att == gpu_attachments[r.regions[i]][m]
              IN att.gpu_model = r.gpu_model =>
                   \E q \in Records :
                     /\ q.description = r.description
                     /\ q.total_price_per_hour =
                          MAdd(q.price_per_hour, MMul(att.price_per_hour, q.gpu_count))

====
